---- MODULE Spec2Model ----
(***************************************************************************)
(* Voice-command orchestration of lonkyzooner/larkx9.                      *)
(*                                                                         *)
(*   Spec      VoiceRecognitionService: capture life cycle, error          *)
(*             recovery, restart timers, microphone permission             *)
(*   SpecRes   VoiceRecognitionService.handleResult on a running session   *)
(*   SpecHook  the useSpeechRecognition hook                               *)
(*   SpecVFI   the VoiceFirstInterface wake-word / command window          *)
(*   SpecDelay the service with the delays of its restart timers followed  *)
(*   SpecLive  the service left to recover, with fair timers and captures  *)
(*   SpecBus   the event stream of the service and its subscribers         *)
(*   SpecCmd   handleCommand of the assistant component (de-duplication)   *)
(*   SpecChk   checkMicrophonePermission in every permission state         *)
(*   SpecNoPlatform  the service on a platform without speech recognition  *)
(*                                                                         *)
(* Delays are counted in tenths of a millisecond, so that 150 * 1.2^3 =    *)
(* 259.2 ms is the integer 2592.                                           *)
(***************************************************************************)
EXTENDS Integers, Sequences, FiniteSets, Bags, TLC

\* ------------------------------------------------------------------ bounds
MaxAttempts == 5      \* recognitionAttempts is followed up to this value
MaxTimers == 2        \* pending setTimeout callbacks of the service
MaxOrphans == 1       \* started recognition objects the service lost its reference to
MaxResults == 2       \* results of one capture session
MaxWakeRecs == 3      \* wake-word recognizers VoiceFirstInterface has created
MaxCmdRecs == 2       \* command recognizers capturing at once
MaxWindows == 2       \* 10 s command-window timers pending at once
MaxPending == 2       \* processCommand calls awaiting speak() at once
MaxSubs == 2          \* subscribers of getEvents()
MaxPublished == 4     \* events followed on the event stream
MaxNow == 4000        \* the clock of the command handler is followed up to this, in ms

\* --------------------------------------------------------------- constants
BackoffBase == 1500           \* 150 ms
BackoffCap == 30000           \* 3000 ms
BackoffMaxExp == 3
ReinitThreshold == 1
NetworkStep == 20000          \* 2000 ms
NetworkMaxSteps == 5
DeviceDelay == 30000          \* 3000 ms
AbortDelay == 5000            \* 500 ms
DedupWindow == 2000           \* ms, handleCommand of the assistant component

Min(a, b) == IF a < b THEN a ELSE b

RECURSIVE Pow(_, _)
Pow(b, k) == IF k = 0 THEN 1 ELSE b * Pow(b, k - 1)

\* 150 * Math.pow(1.2, k) in tenths of a millisecond (exact for k <= 3)
Scaled(k) == (BackoffBase * Pow(12, k)) \div Pow(10, k)

\* s.includes(p) on strings held as sequences of words
Includes(s, p) ==
  \E i \in 0..(Len(s) - Len(p)) : \A j \in 1..Len(p) : s[i + j] = p[j]

\* ------------------------------------------------------------------- state
VARIABLES
  \* VoiceRecognitionService
  recognition,          \* this.recognition: the referenced platform object
  orphans,              \* platform objects still capturing that nothing references
  isListening, startingListening, manualStop, isSystemSpeaking,
  recognitionAttempts, recognitionState, wakeWordState, micPermission,
  timers,               \* bag of pending setTimeout callbacks
  permReq,              \* requestMicrophonePermission: "none" | "query" | "media"
  permChk,              \* checkMicrophonePermission of the constructor
  browserSupport,       \* window.SpeechRecognition || window.webkitSpeechRecognition
  platPerm,             \* what navigator.permissions.query answers
  \* observation of the last step
  emitted,              \* events passed to events.next() by the last step
  statePub,             \* values passed to recognitionState.next() by the last step,
                        \*   each with the number of events emitted before it
  startInvoked,         \* the last step called start() on a platform object
  reinitialized,        \* the restart timer the last step fired discarded the
                        \*   recognition object and constructed a new one
  returned,             \* what requestMicrophonePermission returned in the last step:
                        \*   "true" | "false", "none" when no call returned
  processed,            \* transcripts handed to processCommand by the last step
  lastAct,
  delivered,            \* the result the last onresult event announced (its resultIndex)
  lastDelay,            \* the restart timer the last step fired
  trackDelays,          \* timers carry their origin, n0 and accumulated delay
  \* the event stream (this.events, an rxjs Subject)
  subs,                 \* subscribers of getEvents(): subscribed or not, the number of
                        \*   events published before they subscribed, what they received
  published,            \* the events passed to events.next() so far, numbered
  trackBus,             \* published is followed beyond the constructor's events
  \* history
  stopped,              \* stopListening was called, no user request since
  terminal,             \* a non-recoverable error was handled, no user request since
  \* useSpeechRecognition
  hRec, hListening, hError, hTranscript, hTimer, hDispatched,
  \* VoiceFirstInterface
  vState, vWakeActive, vWake, vCmds, vTimers, vTimerRef, vPending, vLastCommand, vLog,
  vConnected,
  \* handleCommand of the assistant component
  cLast, cLastTime,     \* lastCommandRef, lastCommandTimeRef
  cNow,                 \* Date.now(), in ms
  cPrev,                \* history: the command processed last and when
  cOut                  \* the command the last step was given and whether it was processed

svcVars == <<recognition, orphans, isListening, startingListening, manualStop,
             isSystemSpeaking, recognitionAttempts, recognitionState,
             wakeWordState, micPermission, timers, permReq, permChk, browserSupport,
             platPerm, emitted, statePub, startInvoked, reinitialized, returned, processed,
             lastAct, delivered,
             lastDelay, trackDelays, subs, published, trackBus,
             stopped, terminal>>
svcVarsButAct ==
  <<recognition, orphans, isListening, startingListening, manualStop,
    isSystemSpeaking, recognitionAttempts, recognitionState,
    wakeWordState, micPermission, timers, permReq, permChk, browserSupport,
    platPerm, emitted, statePub, startInvoked, reinitialized, returned, processed,
    delivered, lastDelay,
    trackDelays, subs, published, trackBus,
    stopped, terminal>>
hookVars == <<hRec, hListening, hError, hTranscript, hTimer, hDispatched>>
vfiVars == <<vState, vWakeActive, vWake, vCmds, vTimers, vTimerRef, vPending,
            vLastCommand, vLog, vConnected>>
cmdVars == <<cLast, cLastTime, cNow, cPrev, cOut>>
vars == <<svcVars, hookVars, vfiVars, cmdVars>>

\* ------------------------------------------------- platform recognition object
\* st: "none" (no object) | "idle" | "starting" (start() called) | "running"
\*     | "failing" (error delivered, end pending) | "stopping" (stop()/abort() called)
\* h:  onresult/onerror/onend still attached;  res: results of the session
NoRec == [st |-> "none", h |-> FALSE, res |-> <<>>]
NewRec == [st |-> "idle", h |-> TRUE, res |-> <<>>]
Active(o) == o.st \in {"starting", "running", "failing", "stopping"}

NumActive == (IF Active(recognition) THEN 1 ELSE 0) + Len(orphans)

\* ------------------------------------------------------------------ events
Ev(type, kind, rec, text) ==
  [type |-> type, kind |-> kind, recoverable |-> rec, text |-> text]

\* error objects reaching handleError: name, message (as words)
EvErr(code) == [name |-> code, msg |-> <<code>>]
TimeoutErr == [name |-> "Error", msg |-> <<"Permission", "request", "timed", "out">>]
MediaErr(n) == [name |-> n, msg |-> <<"media", "request", "failed">>]

PlatformErrorCodes == {"no-speech", "network"}
MediaErrorNames == {"NotAllowedError", "NotFoundError", "NotReadableError", "AbortError"}

\* ------------------------------------------------------ service state record
Svc ==
  [recognition |-> recognition, orphans |-> orphans, isListening |-> isListening,
   startingListening |-> startingListening, manualStop |-> manualStop,
   recognitionAttempts |-> recognitionAttempts, recognitionState |-> recognitionState,
   wakeWordState |-> wakeWordState, micPermission |-> micPermission,
   timers |-> timers, emitted |-> <<>>, statePub |-> <<>>, startInvoked |-> FALSE,
   reinitialized |-> FALSE, returned |-> "none",
   processed |-> <<>>, subs |-> subs,
   terminal |-> terminal]

emitEvent(s, e) == [s EXCEPT !.emitted = Append(@, e)]

\* events as the event stream carries them, numbered in the order of publication
Numbered(evs, base) ==
  [i \in 1..Len(evs) |-> [n |-> base + i, type |-> evs[i].type, text |-> evs[i].text]]

NoSub == [on |-> FALSE, from |-> 0, inbox |-> <<>>]

\* a stream that hands the latest event to a new subscriber
subscribe_Replaying(from) ==
  [on |-> TRUE, from |-> from,
   inbox |-> IF from > 0 THEN <<published[from]>> ELSE <<>>]

\* getEvents().subscribe(handler): a Subject replays nothing
subscribe(from) == [on |-> TRUE, from |-> from, inbox |-> <<>>]

\* a stream that hands events to a subscriber ahead of those it already holds
SubjectNext_LastFirst(ss, batch) ==
  [x \in DOMAIN ss |->
     IF ss[x].on THEN [ss[x] EXCEPT !.inbox = batch \o @] ELSE ss[x]]

\* events.next(e) for the events of one step: every current subscriber receives
\* them, synchronously and in the order of the calls
SubjectNext(ss, batch) ==
  [x \in DOMAIN ss |->
     IF ss[x].on THEN [ss[x] EXCEPT !.inbox = @ \o batch] ELSE ss[x]]

\* this.recognitionState.next(v)
nextState(s, v) ==
  [s EXCEPT !.recognitionState = v,
            !.statePub = Append(@, [v |-> v, at |-> Len(s.emitted)])]

\* a pending setTimeout callback.  cb: "start" (the callback of restartRecognition)
\* or "restart" (a call of restartRecognition).  When trackDelays, also the error
\* kind the chain of timers began with, recognitionAttempts at that time, and the
\* delay accumulated from there to the firing of this timer.
Timer(cb, origin, n0, acc) ==
  IF trackDelays
  THEN [cb |-> cb, origin |-> origin, n0 |-> n0, acc |-> acc]
  ELSE [cb |-> cb, origin |-> "none", n0 |-> 0, acc |-> 0]

AddTimer(s, t) == [s EXCEPT !.timers = @ (+) SetToBag({t})]

\* this.recognition = null: an object that is still capturing lives on unreferenced
DropRecognition(s) ==
  IF Active(s.recognition)
  THEN [s EXCEPT !.orphans = Append(@, s.recognition), !.recognition = NoRec]
  ELSE [s EXCEPT !.recognition = NoRec]

initializeRecognition(s) ==
  IF ~browserSupport
  THEN emitEvent(s, Ev("error", "none", "none", <<>>))
  ELSE LET old == s.recognition
           s1 == IF Active(old)
                 THEN [s EXCEPT !.orphans =
                         Append(@, [old EXCEPT !.h = FALSE, !.st = "stopping"])]
                 ELSE s
       IN emitEvent([s1 EXCEPT !.recognition = NewRec],
                    Ev("state_change", "initialized", "none", <<>>))

Backoff(a) == Min(Scaled(Min(a - 1, BackoffMaxExp)), BackoffCap)

restartRecognition(s, origin, n0, acc) ==
  LET a == s.recognitionAttempts + 1
  IN AddTimer([s EXCEPT !.recognitionAttempts = a],
              Timer("start", origin, n0, acc + Backoff(a)))

\* startListening past its guard: start() on the object, the catch block otherwise
startCapture(s) ==
  LET s0 == [s EXCEPT !.startingListening = TRUE]
      s1 == IF s0.recognition.st = "none" THEN initializeRecognition(s0) ELSE s0
  IN IF s1.recognition.st = "idle"
     THEN nextState([s1 EXCEPT !.recognition = [@ EXCEPT !.st = "starting", !.res = <<>>],
                               !.isListening = TRUE, !.startingListening = FALSE,
                               !.startInvoked = TRUE],
                    "listening")
     ELSE LET s2 == [s1 EXCEPT !.startingListening = FALSE,
                               !.startInvoked = (s1.recognition.st # "none")]
          IN restartRecognition(initializeRecognition(DropRecognition(s2)),
                                "start_failed", s.recognitionAttempts, 0)

\* a startListening that starts whether or not a session is running
startListening_Unguarded(s) == startCapture(s)

startListening(s) ==
  IF s.isListening \/ s.startingListening THEN s ELSE startCapture(s)

\* a classification that takes the timeout of the permission request for a denial
Classify_TimeoutAsDenied(err) ==
  IF Includes(err.msg, <<"Permission", "request", "timed", "out">>)
       \/ err.name \in {"NotAllowedError", "PermissionDeniedError"}
    THEN [type |-> "permission_denied", recoverable |-> FALSE, denied |-> TRUE]
  ELSE IF err.name \in {"NotFoundError", "DevicesNotFoundError"}
    THEN [type |-> "device_not_found", recoverable |-> FALSE, denied |-> FALSE]
  ELSE [type |-> err.name, recoverable |-> TRUE, denied |-> FALSE]

Classify(err) ==
  IF Includes(err.msg, <<"Permission", "request", "timed", "out">>)
    THEN [type |-> "permission_timeout", recoverable |-> TRUE, denied |-> FALSE]
  ELSE IF err.name \in {"NotAllowedError", "PermissionDeniedError"}
    THEN [type |-> "permission_denied", recoverable |-> FALSE, denied |-> TRUE]
  ELSE IF err.name \in {"NotFoundError", "DevicesNotFoundError"}
    THEN [type |-> "device_not_found", recoverable |-> FALSE, denied |-> FALSE]
  ELSE IF err.name \in {"NotReadableError", "TrackStartError"}
    THEN [type |-> "device_busy", recoverable |-> TRUE, denied |-> FALSE]
  ELSE IF err.name = "NetworkError" \/ Includes(err.msg, <<"network">>)
    THEN [type |-> "network_error", recoverable |-> TRUE, denied |-> FALSE]
  ELSE IF err.name = "AbortError"
    THEN [type |-> "aborted", recoverable |-> TRUE, denied |-> FALSE]
  ELSE IF err.name = "AudioCapturingError"
    THEN [type |-> "audio_capture_error", recoverable |-> TRUE, denied |-> FALSE]
  ELSE [type |-> err.name, recoverable |-> TRUE, denied |-> FALSE]

RecoveryTimer(s, type, delay) ==
  AddTimer(s, Timer("restart", type, s.recognitionAttempts, delay))

\* a recovery that restarts at once after a device error
attemptErrorRecovery_NoDeviceWait(s, type) ==
  CASE type = "network_error" ->
         RecoveryTimer(s, type, NetworkStep * Min(s.recognitionAttempts, NetworkMaxSteps))
    [] type = "permission_timeout" ->
         emitEvent(s, Ev("permission_required", "none", "none", <<>>))
    [] type = "aborted" ->
         RecoveryTimer(s, type, AbortDelay)
    [] OTHER ->
         restartRecognition(s, type, s.recognitionAttempts, 0)

\* a recovery without the case for permission timeouts: they restart like any
\* other error
attemptErrorRecovery_NoTimeoutCase(s, type) ==
  CASE type = "network_error" ->
         RecoveryTimer(s, type, NetworkStep * Min(s.recognitionAttempts, NetworkMaxSteps))
    [] type \in {"audio_capture_error", "device_busy"} ->
         RecoveryTimer(s, type, DeviceDelay)
    [] type = "aborted" ->
         RecoveryTimer(s, type, AbortDelay)
    [] OTHER ->
         restartRecognition(s, type, s.recognitionAttempts, 0)

attemptErrorRecovery(s, type) ==
  CASE type = "network_error" ->
         RecoveryTimer(s, type, NetworkStep * Min(s.recognitionAttempts, NetworkMaxSteps))
    [] type \in {"audio_capture_error", "device_busy"} ->
         RecoveryTimer(s, type, DeviceDelay)
    [] type = "permission_timeout" ->
         emitEvent(s, Ev("permission_required", "none", "none", <<>>))
    [] type = "aborted" ->
         RecoveryTimer(s, type, AbortDelay)
    [] OTHER ->
         restartRecognition(s, type, s.recognitionAttempts, 0)

handleError(s, err) ==
  LET c == Classify(err)
      s1 == IF c.denied THEN [s EXCEPT !.micPermission = "denied"] ELSE s
      s2 == emitEvent(nextState(s1, "error"),
                      Ev("error", c.type, IF c.recoverable THEN "true" ELSE "false", <<>>))
  IN IF c.recoverable
     THEN attemptErrorRecovery(s2, c.type)
     ELSE [s2 EXCEPT !.terminal = TRUE]

handleEnd(s) ==
  LET s1 == [s EXCEPT !.isListening = FALSE]
  IN IF ~s1.manualStop
     THEN restartRecognition(s1, "end", s1.recognitionAttempts, 0)
     ELSE s1

handleStart(s) == nextState([s EXCEPT !.isListening = TRUE], "listening")

\* the callback restartRecognition hands to setTimeout
RestartTimerFired(s) ==
  IF ~s.manualStop
  THEN startListening(IF s.recognitionAttempts > ReinitThreshold
                      THEN initializeRecognition(
                             DropRecognition([s EXCEPT !.reinitialized = TRUE]))
                      ELSE s)
  ELSE s

NoResult == [t |-> <<>>, final |-> FALSE, none |-> TRUE]

NoDelay == [cb |-> "none", origin |-> "none", n0 |-> 0, acc |-> 0]

WithinBounds(s) ==
  /\ s.recognitionAttempts <= MaxAttempts
  /\ BagCardinality(s.timers) <= MaxTimers
  /\ Len(s.orphans) <= MaxOrphans

\* the state a handler leaves behind
CommitWith(s, act, fired, result) ==
  /\ WithinBounds(s)
  /\ recognition' = s.recognition
  /\ orphans' = s.orphans
  /\ isListening' = s.isListening
  /\ startingListening' = s.startingListening
  /\ manualStop' = s.manualStop
  /\ recognitionAttempts' = s.recognitionAttempts
  /\ recognitionState' = s.recognitionState
  /\ wakeWordState' = s.wakeWordState
  /\ micPermission' = s.micPermission
  /\ timers' = s.timers
  /\ emitted' = s.emitted
  /\ statePub' = s.statePub
  /\ LET batch == Numbered(s.emitted, Len(published))
     IN IF trackBus
        THEN /\ Len(published) + Len(batch) <= MaxPublished
             /\ published' = published \o batch
             /\ subs' = SubjectNext(s.subs, batch)
        ELSE /\ published' = published
             /\ subs' = s.subs
  /\ startInvoked' = s.startInvoked
  /\ returned' = s.returned
  /\ reinitialized' = s.reinitialized
  /\ processed' = s.processed
  /\ terminal' = s.terminal
  /\ lastAct' = act
  /\ delivered' = result
  /\ lastDelay' = fired

Commit(s, act, fired) == CommitWith(s, act, fired, NoResult)


\* ----------------------------------------------------------- service actions
\* stopListening() is called by UnifiedVoiceAssistant but is not part of the class
\* as written; modelled from the capture-session contract: a deliberate stop sets
\* manualStop and stops the stream.  No setTimeout handle and no permission promise
\* is kept by the class, so there is nothing it could cancel.
stopListening(s) ==
  nextState([s EXCEPT !.manualStop = TRUE,
                      !.recognition = IF @.st \in {"starting", "running"}
                                      THEN [@ EXCEPT !.st = "stopping"] ELSE @],
            "inactive")

RestOfService ==
  UNCHANGED <<isSystemSpeaking, browserSupport, platPerm, trackDelays, trackBus,
              hookVars, vfiVars, cmdVars>>

UserStart ==
  /\ Commit(startListening([Svc EXCEPT !.terminal = FALSE]), "startListening", NoDelay)
  /\ stopped' = FALSE
  /\ UNCHANGED <<permReq, permChk>>
  /\ RestOfService

UserStop ==
  /\ Commit(stopListening(Svc), "stopListening", NoDelay)
  /\ stopped' = TRUE
  /\ UNCHANGED <<permReq, permChk>>
  /\ RestOfService

\* the object an event of the platform belongs to: 0 is this.recognition
Obj(k) == IF k = 0 THEN recognition ELSE orphans[k]
Objs == 0..Len(orphans)

SetObj(s, k, o) ==
  IF k = 0 THEN [s EXCEPT !.recognition = o] ELSE [s EXCEPT !.orphans[k] = o]

RemoveAt(q, k) == SubSeq(q, 1, k - 1) \o SubSeq(q, k + 1, Len(q))

\* an object that ended: the referenced one is idle again, an orphan is gone
EndObj(s, k) ==
  IF k = 0 THEN [s EXCEPT !.recognition = [@ EXCEPT !.st = "idle"]]
  ELSE [s EXCEPT !.orphans = RemoveAt(@, k)]

PlatformStart(k) ==
  /\ Obj(k).st = "starting"
  /\ Commit(handleStart(SetObj(Svc, k, [Obj(k) EXCEPT !.st = "running"])),
            "onstart", NoDelay)
  /\ UNCHANGED <<permReq, permChk, stopped>>
  /\ RestOfService

PlatformError(k, code) ==
  /\ Obj(k).st \in {"starting", "running"}
  /\ LET s1 == SetObj(Svc, k, [Obj(k) EXCEPT !.st = "failing"])
     IN Commit(IF Obj(k).h THEN handleError(s1, EvErr(code)) ELSE s1, 
               IF Obj(k).h THEN "onerror" ELSE "callback", NoDelay)
  /\ UNCHANGED <<permReq, permChk, stopped>>
  /\ RestOfService

PlatformEnd(k) ==
  /\ Active(Obj(k))
  /\ LET s1 == EndObj(Svc, k)
     IN Commit(IF Obj(k).h THEN handleEnd(s1) ELSE s1, 
               IF Obj(k).h THEN "onend" ELSE "callback", NoDelay)
  /\ UNCHANGED <<permReq, permChk, stopped>>
  /\ RestOfService

handleNetworkChange(s) ==
  IF s.isListening
  THEN restartRecognition(s, "network_change", s.recognitionAttempts, 0)
  ELSE s

NetworkChange ==
  /\ Commit(handleNetworkChange(Svc), "callback", NoDelay)
  /\ UNCHANGED <<permReq, permChk, stopped>>
  /\ RestOfService

FireTimer(t) ==
  /\ BagIn(t, timers)
  /\ LET s1 == [Svc EXCEPT !.timers = @ (-) SetToBag({t})]
     IN IF t.cb = "restart"
        THEN Commit(restartRecognition(s1, t.origin, t.n0, t.acc), "timer", NoDelay)
        ELSE Commit(RestartTimerFired(s1), "timer", t)
  /\ UNCHANGED <<permReq, permChk, stopped>>
  /\ RestOfService

\* ---- requestMicrophonePermission, one call in flight at a time
RequestPermission ==
  /\ permReq = "none"
  /\ permReq' = IF micPermission = "granted" THEN "none" ELSE "query"
  /\ Commit([Svc EXCEPT !.terminal = FALSE,
                        !.returned = IF micPermission = "granted" THEN "true" ELSE "none"],
            "requestMicrophonePermission", NoDelay)
  /\ stopped' = FALSE
  /\ UNCHANGED permChk
  /\ RestOfService

ReqQueryDone ==
  /\ permReq = "query"
  /\ permReq' = IF platPerm = "prompt" THEN "media" ELSE "none"
  /\ Commit(CASE platPerm = "granted" ->
                   initializeRecognition([Svc EXCEPT !.micPermission = "granted",
                                                     !.returned = "true"])
              [] platPerm = "denied" ->
                   emitEvent([Svc EXCEPT !.micPermission = "denied",
                                         !.returned = "false"],
                             Ev("error", "permission_denied", "none", <<>>))
              [] OTHER -> Svc,
            "permissionQuery", NoDelay)
  /\ UNCHANGED <<permChk, stopped>>
  /\ RestOfService

ReqMediaGranted ==
  /\ permReq = "media"
  /\ permReq' = "none"
  /\ Commit(initializeRecognition(
              emitEvent([Svc EXCEPT !.micPermission = "granted", !.returned = "true"],
                        Ev("state_change", "permission_granted", "none", <<>>))),
            "mediaGranted", NoDelay)
  /\ UNCHANGED <<permChk, stopped>>
  /\ RestOfService

\* getUserMedia rejects, or the 10 s timer of the race rejects first
ReqMediaFailed(err) ==
  /\ permReq = "media"
  /\ permReq' = "none"
  /\ Commit([handleError(Svc, err) EXCEPT !.returned = "false"],
            IF err = TimeoutErr THEN "permissionTimeout" ELSE "mediaFailed", NoDelay)
  /\ UNCHANGED <<permChk, stopped>>
  /\ RestOfService

\* ---- checkMicrophonePermission, called once by the constructor
\* a check that asks the platform whatever the cached state is
checkMicrophonePermission_AlwaysQueries(mic) == "query"

\* checkMicrophonePermission up to its first await: what is pending afterwards
checkMicrophonePermission(mic) ==
  IF mic # "unknown" /\ mic \in {"granted", "denied"} THEN "none" ELSE "query"

\* the method applied to the service as it is; the constructor, its only caller,
\* meets the cached state 'unknown'
CheckPermission ==
  /\ permChk = "none"
  /\ permChk' = checkMicrophonePermission(micPermission)
  /\ Commit(IF micPermission = "denied"
            THEN emitEvent(Svc, Ev("permission_required", "none", "none", <<>>))
            ELSE Svc,
            "checkMicrophonePermission", NoDelay)
  /\ UNCHANGED <<permReq, stopped>>
  /\ RestOfService

ChkQueryDone ==
  /\ permChk = "query"
  /\ permChk' = IF platPerm = "prompt" THEN "media" ELSE "none"
  /\ Commit(CASE platPerm = "granted" -> [Svc EXCEPT !.micPermission = "granted"]
              [] platPerm = "denied" ->
                   emitEvent([Svc EXCEPT !.micPermission = "denied"],
                             Ev("permission_required", "none", "none", <<>>))
              [] OTHER -> [Svc EXCEPT !.micPermission = "prompt"],
            "check", NoDelay)
  /\ UNCHANGED <<permReq, stopped>>
  /\ RestOfService

ChkMediaDone(granted) ==
  /\ permChk = "media"
  /\ permChk' = "none"
  /\ Commit(IF granted THEN [Svc EXCEPT !.micPermission = "granted"]
            ELSE emitEvent([Svc EXCEPT !.micPermission = "denied"],
                           Ev("permission_required", "none", "none", <<>>)),
            "check", NoDelay)
  /\ UNCHANGED <<permReq, stopped>>
  /\ RestOfService

\* ---- getEvents(): subscribers come and go
Subscribe(x) ==
  /\ ~subs[x].on
  /\ Commit([Svc EXCEPT !.subs[x] = subscribe(Len(published))], "subscribe", NoDelay)
  /\ UNCHANGED <<permReq, permChk, stopped>>
  /\ RestOfService

\* an unsubscribe that removes its handler from the list of observers without
\* looking whether it is still there: on a closed handle the last observer goes
unsubscribe_SpliceUnchecked(ss, x) ==
  LET open == {y \in DOMAIN ss : ss[y].on}
  IN IF ss[x].on THEN [ss EXCEPT ![x] = NoSub]
     ELSE IF open = {} THEN ss
     ELSE [ss EXCEPT ![CHOOSE y \in open : \A z \in open : z <= y] = NoSub]

\* subscription.unsubscribe(): a handle that is closed, or the dummy handle the
\* component uses when subscribing failed, does nothing
unsubscribe(ss, x) == IF ss[x].on THEN [ss EXCEPT ![x] = NoSub] ELSE ss

Unsubscribe(x) ==
  /\ Commit([Svc EXCEPT !.subs = unsubscribe(subs, x)],
            IF subs[x].on THEN "unsubscribe" ELSE "unsubscribeClosed", NoDelay)
  /\ UNCHANGED <<permReq, permChk, stopped>>
  /\ RestOfService

\* ------------------------------------------------------------ handleResult
\* transcripts, as sequences of words
Transcripts ==
  {<<>>, <<"hey", "lark">>, <<"read", "miranda", "rights">>, <<"lights", "on">>}

WakeWords == {<<"lark">>, <<"hey", "lark">>, <<"ok", "lark">>, <<"hey", "assistant">>}
OverridePhrase == <<"miranda">>

\* isWakeWordDetected, handleWakeWordDetected and processCommand are called by
\* handleResult but are not part of the class as written; modelled from the
\* orchestrator's transition table.
isWakeWordDetected(t) == \E w \in WakeWords : Includes(t, w)

handleWakeWordDetected(s) ==
  emitEvent([s EXCEPT !.wakeWordState = "listening_for_command"],
            Ev("wake_word_detected", "none", "none", <<>>))

processCommand(s, t, highPriority) ==
  IF t = <<>> THEN s
  ELSE emitEvent([s EXCEPT !.processed = Append(@, t), !.wakeWordState = "inactive"],
                 Ev("command_detected", IF highPriority THEN "high" ELSE "normal",
                    "none", t))

\* results is the result list of the session the event belongs to
handleResult(s, results) ==
  LET transcript == results[1].t
  IN IF isWakeWordDetected(transcript) THEN handleWakeWordDetected(s)
     ELSE IF Includes(transcript, OverridePhrase) THEN processCommand(s, transcript, TRUE)
     ELSE IF isSystemSpeaking THEN s
     ELSE processCommand(s, transcript, FALSE)

Result(t, f) == [t |-> t, final |-> f, none |-> FALSE]

\* the platform reports one result: a new one after a final result, else a
\* revision of the interim result the list ends with
NextResults(res, r) ==
  IF res = <<>> \/ res[Len(res)].final THEN Append(res, r)
  ELSE [res EXCEPT ![Len(res)] = r]

PlatformResult(k, t, f) ==
  /\ Obj(k).st = "running"
  /\ LET res == NextResults(Obj(k).res, Result(t, f))
         s1 == SetObj(Svc, k, [Obj(k) EXCEPT !.res = res])
     IN /\ Len(res) <= MaxResults
        /\ CommitWith(IF Obj(k).h THEN handleResult(s1, res) ELSE s1, "onresult",
                      NoDelay, Result(t, f))
  /\ UNCHANGED <<permReq, permChk, stopped>>
  /\ RestOfService

SetSystemSpeaking(speaking) ==
  /\ isSystemSpeaking' = speaking
  /\ Commit(Svc, "setSystemSpeaking", NoDelay)
  /\ UNCHANGED <<permReq, permChk, stopped>>
  /\ UNCHANGED <<browserSupport, platPerm, trackDelays, trackBus, hookVars, vfiVars,
                 cmdVars>>

\* ------------------------------------------------------ useSpeechRecognition
\* hRec: the platform object of recognitionRef ("none" without platform support,
\* "idle" | "starting" | "running" | "failing" | "stopping");
\* hListening, hError, hTranscript: the hook's React state;
\* hTimer: restartTimeoutRef holds a pending timeout;
\* hDispatched: window events dispatched by the last step.

\* The effect that installs the handlers runs once (dependency list []), so the
\* `listening` its onend handler reads is the value of the first render.
OnEndSeesListening == FALSE

HookUnchanged == UNCHANGED <<svcVarsButAct, vfiVars, cmdVars>>

HookStep(act) == lastAct' = act /\ HookUnchanged

\* stopListening of the hook
HookStop_FailsWhenIdle ==
  /\ hRec' = IF hRec \in {"starting", "running"} THEN "stopping" ELSE hRec
  /\ hListening' = FALSE
  /\ hError' = IF hRec \in {"starting", "running"} THEN hError ELSE "stop failed"
  /\ UNCHANGED <<hTimer, hTranscript>>
  /\ hDispatched' = <<>>
  /\ HookStep("hookStop")

HookStop ==
  /\ hRec' = IF hRec \in {"starting", "running"} THEN "stopping" ELSE hRec
  /\ hListening' = IF hRec = "none" THEN hListening ELSE FALSE
  /\ UNCHANGED <<hError, hTimer, hTranscript>>
  /\ hDispatched' = <<>>
  /\ HookStep("hookStop")

\* startListening of the hook: stop() when listening, then start(), which throws
\* on an object that has not ended yet
HookStart ==
  /\ LET afterStop == IF hListening /\ hRec \in {"starting", "running"}
                      THEN "stopping" ELSE hRec
     IN CASE hRec = "none" ->
               /\ hError' = "not initialized"
               /\ UNCHANGED <<hRec, hListening, hTranscript>>
          [] hRec # "none" /\ afterStop = "idle" ->
               /\ hRec' = "starting"
               /\ hError' = "none"
               /\ hTranscript' = <<>>
               /\ UNCHANGED hListening
          [] OTHER ->
               /\ hRec' = afterStop
               /\ hError' = "start failed"
               /\ hTranscript' = <<>>
               /\ hListening' = FALSE
  /\ UNCHANGED hTimer
  /\ hDispatched' = <<>>
  /\ HookStep("hookStart")

HookOnStart ==
  /\ hRec = "starting"
  /\ hRec' = "running"
  /\ hListening' = TRUE
  /\ hError' = "none"
  /\ UNCHANGED <<hTimer, hTranscript>>
  /\ hDispatched' = <<>>
  /\ HookStep("hookOnstart")

HookOnEnd ==
  /\ hRec \in {"starting", "running", "failing", "stopping"}
  /\ hRec' = "idle"
  /\ hListening' = FALSE
  /\ hTimer' = IF OnEndSeesListening THEN TRUE ELSE hTimer
  /\ UNCHANGED <<hError, hTranscript>>
  /\ hDispatched' = <<>>
  /\ HookStep("hookOnend")

HookOnError(code) ==
  /\ hRec \in {"starting", "running"}
  /\ hRec' = "failing"
  /\ hError' = code
  /\ hListening' = FALSE
  /\ UNCHANGED <<hTimer, hTranscript>>
  /\ hDispatched' = <<>>
  /\ HookStep("hookOnerror")

\* a result of the running session, or the last one of a session stop() ends
HookOnResult(t, f) ==
  /\ hRec \in {"running", "stopping"}
  /\ hRec = "stopping" => f
  /\ hDispatched' = <<[type |-> IF f THEN "lark-audio-detected"
                                ELSE "lark-interim-transcript",
                       text |-> t, final |-> f]>>
  /\ hTranscript' = IF f THEN t ELSE hTranscript
  /\ UNCHANGED <<hRec, hListening, hError, hTimer>>
  /\ HookStep("hookOnresult")

\* ------------------------------------------------------ VoiceFirstInterface
\* vState: assistantState; vWakeActive: isWakeWordActive;
\* vWake: the wake-word recognizers created so far ("running" | "stopping"), the
\*   last one is recognitionRef.current;
\* vCmds: command recognizers that capture; vTimers: pending 10 s timers, fired
\*   oldest first; vTimerRef: wakeWordTimerRef.current is a pending timer (always
\*   the newest); vPending: processCommand calls that await speak();
\* vLog: the last two of the events "wake" (handleWakeWord), "cmd"
\*   (processCommand), "passive" (wake-word mode resumed), "timeout" (the 10 s
\*   timer resumed it);
\* vConnected: isConnected of the voice context.

\* Every handler of the voice path is created inside the chain the mount effect
\* starts, so the isWakeWordActive and assistantState it reads are those of the
\* render the effect ran in.
CapturedWakeActive == TRUE
CapturedState == "idle"

VfiWakePhrases == {<<"hey", "lark">>, <<"hey", "clark">>, <<"hey", "mark">>}

Log2(log, e) == IF Len(log) < 2 THEN Append(log, e) ELSE <<log[2], e>>

VfiStep(act) == lastAct' = act /\ UNCHANGED <<svcVarsButAct, hookVars, cmdVars>>

\* recognitionRef.current.stop() of handleWakeWord
StopCurrentWake(w) ==
  IF w # <<>> /\ w[Len(w)] = "running" THEN [w EXCEPT ![Len(w)] = "stopping"] ELSE w

\* initializeWakeWordDetection: one more recognizer, started
initializeWakeWordDetection(w) == Append(w, "running")

\* setAssistantState('idle'); setIsWakeWordActive(true); initializeWakeWordDetection()
ResumeWakeMode(state, event) ==
  /\ Len(vWake) < MaxWakeRecs
  /\ vState' = state
  /\ vWakeActive' = TRUE
  /\ vWake' = initializeWakeWordDetection(vWake)
  /\ vLog' = Log2(vLog, event)

\* recognition.onresult of recognizer i with a transcript t; handleWakeWord
VfiWakeResult(i, t) ==
  /\ vWake[i] = "running"
  /\ CapturedWakeActive /\ \E p \in VfiWakePhrases : Includes(t, p)
  /\ vCmds < MaxCmdRecs /\ vTimers < MaxWindows
  /\ vWake' = StopCurrentWake(vWake)
  /\ vWakeActive' = FALSE
  /\ vState' = "listening"
  /\ vCmds' = vCmds + 1
  /\ vTimers' = vTimers + 1
  /\ vTimerRef' = TRUE
  /\ vLog' = Log2(vLog, "wake")
  /\ UNCHANGED <<vPending, vLastCommand>>
  /\ UNCHANGED vConnected
  /\ VfiStep("vfiWake")

\* recognition.onend of a recognizer that was stopped
VfiWakeEnd(i) ==
  /\ vWake[i] = "stopping"
  /\ vWake' = [vWake EXCEPT ![i] = IF CapturedWakeActive THEN "running" ELSE "idle"]
  /\ UNCHANGED <<vState, vWakeActive, vCmds, vTimers, vTimerRef, vPending,
                 vLastCommand, vLog>>
  /\ UNCHANGED vConnected
  /\ VfiStep("vfiWakeEnd")

\* commandRecognition.onresult, processCommand up to its await
VfiCommandResult(t) ==
  /\ vCmds > 0 /\ vPending < MaxPending
  /\ vCmds' = vCmds - 1
  /\ vTimers' = IF vTimerRef THEN vTimers - 1 ELSE vTimers
  /\ vTimerRef' = FALSE
  /\ vLastCommand' = t
  /\ vState' = "responding"
  /\ vPending' = vPending + 1
  /\ vLog' = Log2(vLog, "cmd")
  /\ UNCHANGED <<vWake, vWakeActive>>
  /\ UNCHANGED vConnected
  /\ VfiStep("vfiCommand")

\* processCommand after speak() resolved
VfiSpeakDone ==
  /\ vPending > 0
  /\ vPending' = vPending - 1
  /\ ResumeWakeMode("idle", "passive")
  /\ UNCHANGED <<vCmds, vTimers, vTimerRef, vLastCommand>>
  /\ UNCHANGED vConnected
  /\ VfiStep("vfiSpeakDone")

VfiCommandError ==
  /\ vCmds > 0
  /\ vCmds' = vCmds - 1
  /\ ResumeWakeMode("error", "passive")
  /\ UNCHANGED <<vTimers, vTimerRef, vPending, vLastCommand>>
  /\ UNCHANGED vConnected
  /\ VfiStep("vfiCommandError")

\* commandRecognition.onend without a result
VfiCommandEnd ==
  /\ vCmds > 0
  /\ vCmds' = vCmds - 1
  /\ IF CapturedState = "listening"
     THEN ResumeWakeMode("idle", "passive")
     ELSE UNCHANGED <<vState, vWakeActive, vWake, vLog>>
  /\ UNCHANGED <<vTimers, vTimerRef, vPending, vLastCommand>>
  /\ UNCHANGED vConnected
  /\ VfiStep("vfiCommandEnd")

\* the 10 s timer of handleWakeWord
VfiWindowTimeout ==
  /\ vTimers > 0
  /\ vTimers' = vTimers - 1
  /\ vTimerRef' = (vTimerRef /\ vTimers > 1)
  /\ ResumeWakeMode("idle", "timeout")
  /\ UNCHANGED <<vCmds, vPending, vLastCommand>>
  /\ UNCHANGED vConnected
  /\ VfiStep("vfiTimeout")

\* connect() resolved and isConnected changed, a dependency of the mount effect:
\* its cleanup stops recognitionRef.current and clears the timer of
\* wakeWordTimerRef, then the effect runs again and starts wake-word detection.
\* The handlers of the new recognizer read the isWakeWordActive of this render; one
\* that reads false ("deaf") never reports a wake word and is not restarted.
VfiConnected ==
  /\ ~vConnected
  /\ vConnected' = TRUE
  /\ Len(vWake) < MaxWakeRecs
  /\ vWake' = Append(StopCurrentWake(vWake), IF vWakeActive THEN "running" ELSE "deaf")
  /\ vTimers' = IF vTimerRef THEN vTimers - 1 ELSE vTimers
  /\ vTimerRef' = FALSE
  /\ UNCHANGED <<vState, vWakeActive, vCmds, vPending, vLastCommand, vLog>>
  /\ VfiStep("vfiConnected")

\* ------------------------------------------- handleCommand (assistant component)
\* commands are sequences of characters
RawCommands ==
  {<<>>, <<" ">>, <<"a">>, <<"A">>, <<" ", "a">>, <<"A", " ">>, <<"b">>,
   <<"a", " ", "b">>}

\* String.toLowerCase
Lower(c) ==
  [i \in 1..Len(c) |-> IF c[i] = "A" THEN "a" ELSE IF c[i] = "B" THEN "b" ELSE c[i]]

RECURSIVE TrimLeft(_)
TrimLeft(c) == IF c # <<>> /\ Head(c) = " " THEN TrimLeft(Tail(c)) ELSE c

RECURSIVE TrimRight(_)
TrimRight(c) ==
  IF c # <<>> /\ c[Len(c)] = " " THEN TrimRight(SubSeq(c, 1, Len(c) - 1)) ELSE c

\* String.trim
Trim(c) == TrimRight(TrimLeft(c))

NoCommand == [raw |-> <<>>, processed |-> FALSE, none |-> TRUE]
NoPrev == [norm |-> <<>>, time |-> 0, none |-> TRUE]

\* a handleCommand that restarts the window at every duplicate it drops
handleCommand_SlidingWindow(command, last, lastTime, now) ==
  LET commandLower == Trim(Lower(command))
  IN IF Trim(command) = <<>>
     THEN [last |-> last, lastTime |-> lastTime, processed |-> FALSE]
     ELSE IF commandLower = last /\ now - lastTime < DedupWindow
     THEN [last |-> last, lastTime |-> now, processed |-> FALSE]
     ELSE [last |-> commandLower, lastTime |-> now, processed |-> TRUE]

\* handleCommand up to the point where the command is acted on
handleCommand(command, last, lastTime, now) ==
  LET commandLower == Trim(Lower(command))
  IN IF Trim(command) = <<>>
     THEN [last |-> last, lastTime |-> lastTime, processed |-> FALSE]
     ELSE IF commandLower = last /\ now - lastTime < DedupWindow
     THEN [last |-> last, lastTime |-> lastTime, processed |-> FALSE]
     ELSE [last |-> commandLower, lastTime |-> now, processed |-> TRUE]

CmdStep(act) == lastAct' = act /\ UNCHANGED <<svcVarsButAct, hookVars, vfiVars>>

HandleCommand(command) ==
  /\ LET r == handleCommand(command, cLast, cLastTime, cNow)
     IN /\ cLast' = r.last
        /\ cLastTime' = r.lastTime
        /\ cOut' = [raw |-> command, processed |-> r.processed, none |-> FALSE]
        /\ cPrev' = IF r.processed
                    THEN [norm |-> Trim(Lower(command)), time |-> cNow, none |-> FALSE]
                    ELSE cPrev
  /\ UNCHANGED cNow
  /\ CmdStep("handleCommand")

TickSteps == {1999, 2000}

Tick(d) ==
  /\ cNow + d <= MaxNow
  /\ cNow' = cNow + d
  /\ cOut' = NoCommand
  /\ UNCHANGED <<cLast, cLastTime, cPrev>>
  /\ CmdStep("tick")

CmdIdle ==
  /\ cLast = <<>> /\ cLastTime = 0 /\ cNow = 0 /\ cPrev = NoPrev /\ cOut = NoCommand

\* ------------------------------------------------------------ initial states
HookIdle ==
  /\ hRec = "idle" /\ hListening = FALSE /\ hError = "none" /\ hTranscript = <<>>
  /\ hTimer = FALSE /\ hDispatched = <<>>

\* the hook after its first render and its effect
HookMounted ==
  /\ hRec = IF browserSupport THEN "idle" ELSE "none"
  /\ hListening = FALSE /\ hTranscript = <<>> /\ hTimer = FALSE /\ hDispatched = <<>>
  /\ hError = IF browserSupport THEN "none" ELSE "not supported"

VfiIdle ==
  /\ vState = "idle" /\ vWakeActive = TRUE /\ vWake = <<>> /\ vCmds = 0
  /\ vTimers = 0 /\ vTimerRef = FALSE /\ vPending = 0 /\ vLastCommand = <<>>
  /\ vLog = <<>> /\ vConnected = FALSE

\* the service after initializeRecognition() of its constructor
ServiceBuilt ==
  /\ browserSupport \in BOOLEAN
  /\ platPerm \in {"granted", "denied", "prompt"}
  /\ recognition = IF browserSupport THEN NewRec ELSE NoRec
  /\ orphans = <<>>
  /\ isListening = FALSE /\ startingListening = FALSE /\ manualStop = FALSE
  /\ isSystemSpeaking = FALSE
  /\ recognitionAttempts = 0
  /\ recognitionState = "inactive" /\ wakeWordState = "inactive"
  /\ micPermission = "unknown"
  /\ timers = EmptyBag
  /\ permReq = "none"
  /\ emitted = initializeRecognition(
                 [recognition |-> NoRec, orphans |-> <<>>, emitted |-> <<>>]).emitted
  /\ statePub = <<>>
  /\ published = Numbered(emitted, 0)
  /\ subs = [x \in 1..MaxSubs |-> NoSub]
  /\ startInvoked = FALSE /\ reinitialized = FALSE /\ returned = "none"
  /\ processed = <<>>
  /\ lastAct = "constructor" /\ lastDelay = NoDelay /\ delivered = NoResult
  /\ stopped = FALSE /\ terminal = FALSE

\* the service after its constructor ran up to the first await
ServiceConstructed == ServiceBuilt /\ permChk = "query"

Init == ServiceConstructed /\ trackDelays = FALSE /\ trackBus = FALSE /\ CmdIdle /\ HookIdle /\ VfiIdle

Next ==
  \/ UserStart
  \/ UserStop
  \/ \E k \in Objs : PlatformStart(k)
  \/ \E k \in Objs, code \in PlatformErrorCodes : PlatformError(k, code)
  \/ \E k \in Objs : PlatformEnd(k)
  \/ NetworkChange
  \/ \E t \in BagToSet(timers) : FireTimer(t)
  \/ RequestPermission
  \/ ReqQueryDone
  \/ ReqMediaGranted
  \/ \E n \in MediaErrorNames : ReqMediaFailed(MediaErr(n))
  \/ ReqMediaFailed(TimeoutErr)
  \/ ChkQueryDone
  \/ \E g \in BOOLEAN : ChkMediaDone(g)

Spec == Init /\ [][Next]_vars

\* a capture session that runs, the results it reports and the speaking signal
InitRes ==
  /\ browserSupport = TRUE /\ platPerm = "granted"
  /\ recognition = [st |-> "running", h |-> TRUE, res |-> <<>>]
  /\ orphans = <<>>
  /\ isListening = TRUE /\ startingListening = FALSE /\ manualStop = FALSE
  /\ isSystemSpeaking = FALSE
  /\ recognitionAttempts = 0
  /\ recognitionState = "listening" /\ wakeWordState = "inactive"
  /\ micPermission = "granted"
  /\ timers = EmptyBag
  /\ permReq = "none" /\ permChk = "none"
  /\ emitted = <<>> /\ statePub = <<>> /\ startInvoked = FALSE /\ processed = <<>>
  /\ returned = "none" /\ reinitialized = FALSE
  /\ published = <<>> /\ subs = [x \in 1..MaxSubs |-> NoSub]
  /\ lastAct = "onstart" /\ lastDelay = NoDelay /\ delivered = NoResult
  /\ stopped = FALSE /\ terminal = FALSE
  /\ trackDelays = FALSE /\ trackBus = FALSE /\ CmdIdle /\ HookIdle /\ VfiIdle

NextRes ==
  \/ \E t \in Transcripts, f \in BOOLEAN : PlatformResult(0, t, f)
  \/ \E b \in BOOLEAN : SetSystemSpeaking(b)

SpecRes == InitRes /\ [][NextRes]_vars

InitHook == ServiceConstructed /\ platPerm = "granted"
            /\ trackDelays = FALSE /\ trackBus = FALSE /\ CmdIdle /\ HookMounted /\ VfiIdle

HookErrorCodes == {"no-speech", "network", "not-allowed"}

NextHook ==
  \/ HookStart
  \/ HookStop
  \/ HookOnStart
  \/ HookOnEnd
  \/ \E c \in HookErrorCodes : HookOnError(c)
  \/ \E t \in Transcripts, f \in BOOLEAN : HookOnResult(t, f)

SpecHook == InitHook /\ [][NextHook]_vars

\* VoiceFirstInterface once the permission was granted and wake-word detection runs
InitVFI ==
  /\ ServiceConstructed /\ browserSupport /\ platPerm = "granted"
  /\ trackDelays = FALSE /\ trackBus = FALSE /\ CmdIdle /\ HookIdle
  /\ vState = "idle" /\ vWakeActive = TRUE /\ vWake = <<"running">> /\ vCmds = 0
  /\ vTimers = 0 /\ vTimerRef = FALSE /\ vPending = 0 /\ vLastCommand = <<>>
  /\ vLog = <<>> /\ vConnected = FALSE

VfiTranscripts == {<<"hey", "lark">>, <<"read", "miranda", "rights">>, <<"lights", "on">>}

NextVFI ==
  \/ \E i \in 1..Len(vWake), t \in VfiTranscripts : VfiWakeResult(i, t)
  \/ \E i \in 1..Len(vWake) : VfiWakeEnd(i)
  \/ \E t \in VfiTranscripts : VfiCommandResult(t)
  \/ VfiSpeakDone
  \/ VfiCommandError
  \/ VfiCommandEnd
  \/ VfiWindowTimeout
  \/ VfiConnected

SpecVFI == InitVFI /\ [][NextVFI]_vars

\* the same service with the delays of its timers followed
InitDelay ==
  /\ ServiceConstructed /\ browserSupport /\ platPerm = "prompt"
  /\ trackDelays = TRUE /\ trackBus = FALSE /\ CmdIdle /\ HookIdle /\ VfiIdle

\* capture and permission-request failures and the timers they schedule
NextDelay ==
  \/ UserStart
  \/ \E k \in Objs : PlatformStart(k)
  \/ \E k \in Objs, code \in PlatformErrorCodes : PlatformError(k, code)
  \/ \E k \in Objs : PlatformEnd(k)
  \/ \E t \in BagToSet(timers) : FireTimer(t)
  \/ RequestPermission
  \/ ReqQueryDone
  \/ \E n \in MediaErrorNames : ReqMediaFailed(MediaErr(n))

SpecDelay == InitDelay /\ [][NextDelay]_vars

\* the service left to recover: no stopListening; timers fire, a capture that was
\* started ends, and a start is confirmed if it is attempted again and again.
\* The user may ask for the microphone permission at any time.
InitLive ==
  /\ ServiceConstructed /\ browserSupport /\ platPerm = "prompt"
  /\ trackDelays = FALSE /\ trackBus = FALSE /\ CmdIdle /\ HookIdle /\ VfiIdle

NextLive ==
  \/ UserStart
  \/ \E k \in Objs : PlatformStart(k)
  \/ \E k \in Objs, code \in PlatformErrorCodes : PlatformError(k, code)
  \/ \E k \in Objs : PlatformEnd(k)
  \/ NetworkChange
  \/ \E t \in BagToSet(timers) : FireTimer(t)
  \/ ChkQueryDone
  \/ \E g \in BOOLEAN : ChkMediaDone(g)
  \/ RequestPermission
  \/ ReqQueryDone
  \/ ReqMediaGranted
  \/ \E n \in MediaErrorNames : ReqMediaFailed(MediaErr(n))

\* the service and the subscribers of its event stream
InitBus ==
  /\ ServiceConstructed /\ browserSupport /\ platPerm = "denied"
  /\ trackDelays = FALSE /\ trackBus = TRUE /\ CmdIdle /\ HookIdle /\ VfiIdle

BusTranscripts == {<<"hey", "lark">>, <<"lights", "on">>}

NextBus ==
  \/ \E x \in 1..MaxSubs : Subscribe(x)
  \/ \E x \in 1..MaxSubs : Unsubscribe(x)
  \/ UserStart
  \/ PlatformStart(0)
  \/ PlatformError(0, "no-speech")
  \/ PlatformEnd(0)
  \/ \E t \in BusTranscripts : PlatformResult(0, t, TRUE)
  \/ ChkQueryDone

SpecBus == InitBus /\ [][NextBus]_vars

\* the command handler of the assistant component and its clock
InitCmd ==
  /\ ServiceConstructed /\ browserSupport /\ platPerm = "granted"
  /\ trackDelays = FALSE /\ trackBus = FALSE /\ CmdIdle /\ HookIdle /\ VfiIdle

NextCmd ==
  \/ \E c \in RawCommands : HandleCommand(c)
  \/ \E d \in TickSteps : Tick(d)

SpecCmd == InitCmd /\ [][NextCmd]_vars

\* the permission check applied in every permission state the service reaches
NextChk ==
  \/ CheckPermission
  \/ ChkQueryDone
  \/ \E g \in BOOLEAN : ChkMediaDone(g)
  \/ RequestPermission
  \/ ReqQueryDone
  \/ ReqMediaGranted
  \/ \E n \in MediaErrorNames : ReqMediaFailed(MediaErr(n))
  \/ ReqMediaFailed(TimeoutErr)

\* the constructor is about to call checkMicrophonePermission
InitChk ==
  /\ ServiceBuilt /\ permChk = "none"
  /\ trackDelays = FALSE /\ trackBus = FALSE /\ CmdIdle /\ HookIdle /\ VfiIdle

SpecChk == InitChk /\ [][NextChk]_vars

\* a platform without speech recognition: no object is ever constructed, so no
\* platform callback arrives; restart timers fire
InitNoPlatform ==
  /\ ServiceConstructed /\ ~browserSupport
  /\ trackDelays = FALSE /\ trackBus = FALSE /\ CmdIdle /\ HookIdle /\ VfiIdle

NextNoPlatform ==
  \/ UserStart
  \/ \E t \in BagToSet(timers) : FireTimer(t)
  \/ ChkQueryDone
  \/ \E g \in BOOLEAN : ChkMediaDone(g)
  \/ RequestPermission
  \/ ReqQueryDone
  \/ ReqMediaGranted
  \/ \E n \in MediaErrorNames : ReqMediaFailed(MediaErr(n))
  \/ ReqMediaFailed(TimeoutErr)

SpecNoPlatform ==
  /\ InitNoPlatform /\ [][NextNoPlatform]_vars
  /\ WF_vars(\E t \in BagToSet(timers) : FireTimer(t))

SpecLive ==
  /\ InitLive /\ [][NextLive]_vars
  /\ WF_vars(\E t \in BagToSet(timers) : FireTimer(t))
  /\ WF_vars(\E k \in Objs : PlatformEnd(k))
  /\ SF_vars(\E k \in Objs : PlatformStart(k))


C2_SuppressedWhileSpeaking ==
  (lastAct = "onresult" /\ isSystemSpeaking
     /\ ~Includes(delivered.t, OverridePhrase)) =>
    /\ processed = <<>>
    /\ \A i \in 1..Len(emitted) : emitted[i].type # "command_detected"

\* C3: after an error classified non-recoverable (permission_denied,
\* device_not_found) no capture start is attempted until the user calls start()
\* or requests the permission again; neither a pending timer nor the capture-end
\* callback restarts the capture.
C3_NoStartAfterTerminal == terminal => ~startInvoked

\* C4: after stop(manual:true) the orchestrator is idle, no restart timer and no
\* permission request is pending any more, and no later step starts a capture or
\* emits an event.
C4_StopIsFinal ==
  (stopped /\ lastAct \notin {"stopListening", "check"}) =>
    /\ recognitionState = "inactive"
    /\ timers = EmptyBag /\ permReq = "none"
    /\ emitted = <<>> /\ ~startInvoked

\* C5: a second stop right after a stop changes nothing, and after a stop the hook
\* is not listening, the capture is stopped or on its way to its end, and no
\* restart timer is pending.
C5_StopIdempotent ==
  [][lastAct' = "hookStop" =>
       /\ (hRec' # "none" => ~hListening') /\ ~hTimer'
       /\ hRec' \notin {"starting", "running"}
       /\ (lastAct = "hookStop" =>
             <<hRec', hListening', hError', hTranscript', hTimer'>>
               = <<hRec, hListening, hError, hTranscript, hTimer>>)
    ]_vars

\* stop acted on a running capture
C5_Witness == lastAct = "hookStop" /\ hRec = "stopping"

\* C6: start() called in Idle while the permission is Denied emits exactly one
\* PermissionRequired event, stays idle and never calls the platform's start().
C6_DeniedStartBlocked ==
  [][(lastAct' = "startListening" /\ micPermission = "denied" /\ ~isListening
       /\ browserSupport) =>
       /\ ~startInvoked'
       /\ emitted' = <<Ev("permission_required", "none", "none", <<>>)>>
       /\ ~isListening' /\ recognitionState' # "listening"]_vars

\* C7: a WakeWordDetected is followed, before any other WakeWordDetected and
\* within the 10 s window, by exactly one CommandDetected or by a silent return
\* to wake-word listening: never a second wake word first, never two commands,
\* never a command after the window elapsed, and no command recognizer is left
\* capturing once the window has elapsed.
C7_WakeThenOneCommand ==
  /\ vLog \notin {<<"wake", "wake">>, <<"cmd", "cmd">>, <<"timeout", "cmd">>}
  /\ (lastAct = "vfiTimeout" => vCmds = 0)

\* C8: a command received in the command window is passed on as it is, leaves no
\* 10 s timer that can still fire, and the events of the cycle are exactly
\* [WakeWordDetected, CommandDetected].
C8_CommandClosesWindow ==
  lastAct = "vfiCommand" =>
    /\ vTimers = 0 /\ ~vTimerRef
    /\ vLog = <<"wake", "cmd">>

\* C9: the restart scheduled for a network_error handled with
\* consecutiveFailures = n reaches its start step min(150 * 1.2^min(n,3), 3000) ms
\* after the error (n read when the error is handled or when its timer fires).
C9_NetworkDelay ==
  lastDelay.origin = "network_error" =>
    \E a \in (lastDelay.n0 + 1)..recognitionAttempts : lastDelay.acc = Backoff(a)

C11_ResetOnListening ==
  [][(recognition.st = "starting" /\ recognition'.st = "running")
       => recognitionAttempts' = 0]_vars

\* the service captures: a started object with its handlers attached runs and
\* isListening is set
Listening ==
  isListening /\ \E k \in Objs : Obj(k).st = "running" /\ Obj(k).h

\* the capture just failed with a recoverable error or ended without a stop
CaptureLost ==
  /\ lastAct \in {"onerror", "onend"} /\ ~manualStop
  /\ recognitionAttempts < MaxAttempts

\* C12: without a manual stop, with timers that fire and starts that are
\* confirmed, every recoverable capture error and every unexpected capture end
\* is followed by the service capturing again (as far as the attempt counter is
\* followed).
C12_RecoversToListening ==
  CaptureLost ~> (Listening \/ recognitionAttempts >= MaxAttempts)

\* C13: every step that changes the phase of the service (listening or not,
\* recognition state) publishes the change: a state_change event on the event
\* stream, or at least a value on the recognition state stream.
C13_PhaseChangePublished ==
  [][(isListening' # isListening \/ recognitionState' # recognitionState) =>
       \/ statePub' # <<>>
       \/ \E i \in 1..Len(emitted') : emitted'[i].type = "state_change"]_vars

SemanticEvents ==
  {"wake_word_detected", "command_detected", "error", "permission_required"}

\* C14: in the publications of one step after construction a semantic event (wake word, command,
\* error, permission required) comes after the state change of that step: a
\* state_change event before it, or at least a recognition state value.
C14_StateBeforeSemantic ==
  \A i \in 1..Len(emitted) :
    (lastAct # "constructor" /\ emitted[i].type \in SemanticEvents) =>
      \/ \E j \in 1..(i - 1) : emitted[j].type = "state_change"
      \/ \E k \in 1..Len(statePub) : statePub[k].at < i

C17_NoReplay ==
  \A x \in 1..MaxSubs : \A i \in 1..Len(subs[x].inbox) :
    subs[x].inbox[i].n > subs[x].from

\* a subscriber that joined after the constructor's and a later event received
\* the events that followed
C17_Witness ==
  \E x \in 1..MaxSubs :
    /\ subs[x].on /\ subs[x].from >= 2 /\ subs[x].inbox # <<>>
    /\ lastAct # "subscribe"

\* C18: an error event published for a capture error carries a kind of the
\* taxonomy (permission_denied, permission_timeout, device_not_found,
\* device_busy, network_error, aborted, unknown) and a recoverable flag, never
\* the platform's own error code.
C18_ClassifiedErrors ==
  \A i \in 1..Len(emitted) :
    (lastAct = "onerror" /\ emitted[i].type = "error") =>
      /\ emitted[i].kind \in {"permission_denied", "permission_timeout",
                              "device_not_found", "device_busy", "network_error",
                              "aborted", "unknown"}
      /\ emitted[i].recoverable \in {"true", "false"}

\* C19: a command whose trimmed, lower-cased text equals that of the command
\* processed last and that comes less than 2 s after it is dropped and changes
\* nothing; every other command is processed.
C19_Dedup ==
  [][(lastAct' = "handleCommand" /\ Trim(cOut'.raw) # <<>>) =>
       LET duplicate == /\ ~cPrev.none
                        /\ Trim(Lower(cOut'.raw)) = cPrev.norm
                        /\ cNow - cPrev.time < DedupWindow
       IN /\ cOut'.processed <=> ~duplicate
          /\ duplicate => UNCHANGED <<cLast, cLastTime, cPrev>>]_vars

\* a command written differently from the one processed less than 2 s before
\* was dropped, after another duplicate had already been dropped
C19_Witness ==
  /\ lastAct = "handleCommand" /\ ~cOut.none /\ ~cOut.processed
  /\ Trim(cOut.raw) # <<>> /\ cOut.raw # cLast
  /\ cNow - cLastTime = 1999

\* the service has no phase field: it is suppressed while it listens with
\* isSystemSpeaking set
Suppressed == isListening /\ isSystemSpeaking

\* C20: the service is suppressed only while isSystemSpeaking is set and stops
\* being suppressed only on a step that ends with isSystemSpeaking cleared;
\* after setSystemSpeaking(false) transcripts are processed normally again: a
\* final transcript without a wake phrase delivered next is the command that is
\* processed.
C20_SuppressedUntilCleared ==
  [][/\ (Suppressed /\ ~Suppressed') => ~isSystemSpeaking'
     /\ (/\ lastAct = "setSystemSpeaking" /\ ~isSystemSpeaking
         /\ lastAct' = "onresult" /\ delivered'.final /\ delivered'.t # <<>>
         /\ ~isWakeWordDetected(delivered'.t)) => processed' = <<delivered'.t>>]_vars

\* C21: whenever the assistant awaits a command (assistantState 'listening') the
\* 10 s command-window timer wakeWordTimerRef refers to is pending: it was set
\* by the wake word that opened the window and has neither fired nor been
\* cleared.
C21_AwaitingHasDeadline == vState = "listening" => (vTimerRef /\ vTimers > 0)

\* C22: no step calls start() on a platform object while the permission state
\* the service holds is denied, neither startListening() nor the callback of a
\* restart timer.
C22_NoStartWhileDenied == startInvoked => micPermission # "denied"

\* the timeout of the media request won the race: the call returns false, the
\* error published is a permission_timeout and no permission_denied, and the
\* cached permission state is left as it was
TimeoutOutcome ==
  lastAct' = "permissionTimeout" =>
    /\ permReq = "media" /\ returned' = "false"
    /\ \E i \in 1..Len(emitted') :
         emitted'[i].type = "error" /\ emitted'[i].kind = "permission_timeout"
    /\ \A i \in 1..Len(emitted') : emitted'[i].kind # "permission_denied"
    /\ micPermission' = micPermission

\* C23 as stated: every call of requestMicrophonePermission returns out of the
\* media request it raced against the 10 s timer, and a timeout returns false
\* with a permission_timeout error and the cached state untouched.
C23_AlwaysActiveRequest ==
  [][/\ returned' # "none" => permReq = "media"
     /\ TimeoutOutcome]_vars

\* C23 amended: a call returns without the media request only with true when
\* the cached state or the platform permission store says granted, or with
\* false and a permission_denied error when the store says denied; every other
\* call returns out of the media request, and a timeout returns false with a
\* permission_timeout error and the cached state untouched.
C23_ActiveUnlessSettled ==
  [][/\ (returned' # "none" /\ permReq # "media") =>
          \/ /\ returned' = "true" /\ micPermission' = "granted"
             /\ (micPermission = "granted" \/ platPerm = "granted")
          \/ /\ returned' = "false" /\ platPerm = "denied" /\ permReq = "query"
             /\ micPermission' = "denied"
             /\ \E i \in 1..Len(emitted') : emitted'[i].kind = "permission_denied"
     /\ TimeoutOutcome]_vars

\* the media request timed out while the permission was still undecided
C23_Witness ==
  /\ lastAct = "permissionTimeout" /\ returned = "false"
  /\ micPermission \in {"unknown", "prompt"}
  /\ \E i \in 1..Len(emitted) : emitted[i].type = "permission_required"

\* C24: a permission check that finds the cached state granted or denied asks
\* the platform nothing (no permission query, no media request is pending
\* afterwards) and leaves the cached state as it is; with the cached state
\* unknown or prompt it queries the platform permission store.
C24_CachedCheckNoIO ==
  [][lastAct' = "checkMicrophonePermission" =>
       IF micPermission \in {"granted", "denied"}
       THEN permChk' = "none" /\ micPermission' = micPermission
       ELSE permChk' = "query"]_vars

\* a check found the cached state denied and only published PermissionRequired
C24_Witness ==
  /\ lastAct = "checkMicrophonePermission" /\ micPermission = "denied"
  /\ permChk = "none"
  /\ emitted = <<Ev("permission_required", "none", "none", <<>>)>>

\* the delay from an error of the given kind, handled with the failure counter
\* at n, to the start step of the restart it schedules, when nothing else
\* happens in between
UndisturbedDelay(kind, n) ==
  (CASE kind = "network_error" -> NetworkStep * Min(n, NetworkMaxSteps)
     [] kind \in {"audio_capture_error", "device_busy"} -> DeviceDelay
     [] kind = "aborted" -> AbortDelay
     [] OTHER -> 0) + Backoff(n + 1)

\* C25: the restart that recovers from an error is decided by the error kind and
\* the failure counter at the error alone: its start step comes after the delay
\* those two give, and it reconstructs the recognition object exactly when the
\* counter, raised for this failure, exceeds 1.
C25_DecisionByKindAndCount ==
  (lastDelay.cb = "start"
     /\ lastDelay.origin \notin {"none", "end", "network_change", "start_failed"}) =>
    /\ lastDelay.acc = UndisturbedDelay(lastDelay.origin, lastDelay.n0)
    /\ reinitialized <=> (lastDelay.n0 + 1 > ReinitThreshold)

\* the callback of a restart timer ran past its manualStop test
RestartRan == lastAct' = "timer" /\ lastDelay'.cb = "start" /\ ~manualStop

\* C26: a restart discards and reconstructs the recognition object
\* exactly when recognitionAttempts > 1 at that time, and with
\* recognitionAttempts <= 1 it calls start() on the existing object.
C26_ReinitOrRestart ==
  [][RestartRan =>
       /\ reinitialized' <=> recognitionAttempts > ReinitThreshold
       /\ recognitionAttempts <= ReinitThreshold =>
            startInvoked' /\ recognition'.st = "starting"]_vars

\* C27: the step that handles a permission_timeout schedules no restart timer,
\* counts no failure, calls no start() and starts no permission request or
\* check; it publishes PermissionRequired; and a permission request begins only
\* with a call of requestMicrophonePermission.
C27_TimeoutNoAutoRetry ==
  [][/\ lastAct' = "permissionTimeout" =>
          /\ timers' = timers /\ recognitionAttempts' = recognitionAttempts
          /\ ~startInvoked' /\ recognition' = recognition
          /\ permReq' = "none" /\ permChk' = permChk
          /\ \E i \in 1..Len(emitted') : emitted'[i].type = "permission_required"
     /\ (permReq = "none" /\ permReq' # "none") =>
          lastAct' = "requestMicrophonePermission"]_vars

\* a permission request timed out on an idle service with nothing pending
C27_Witness ==
  /\ lastAct = "permissionTimeout" /\ timers = EmptyBag /\ permReq = "none"
  /\ ~isListening /\ NumActive = 0
  /\ emitted[Len(emitted)].type = "permission_required"

\* startListening() of the service called while it listens or starts: nothing
\* is called, scheduled, published or changed
ServiceStartIsNoOp ==
  (lastAct' = "startListening" /\ (isListening \/ startingListening)) =>
    /\ ~startInvoked' /\ emitted' = <<>> /\ statePub' = <<>>
    /\ UNCHANGED <<recognition, orphans, timers, isListening, startingListening,
                   manualStop, recognitionAttempts, recognitionState, wakeWordState,
                   micPermission, permReq, permChk>>

\* C28: start() called while a session is listening or a start is in flight is
\* a no-op, in the service and in the useSpeechRecognition hook: no platform
\* start or stop, no new object, no timer, no event, no state change.
C28_StartWhileActiveNoOp ==
  [][/\ ServiceStartIsNoOp
     /\ (lastAct' = "hookStart" /\ (hListening \/ hRec \in {"starting", "running"})) =>
          UNCHANGED <<hRec, hListening, hError, hTranscript, hTimer>>]_vars

C30_OverrideOnlyWhenFinal ==
  (lastAct = "onresult" /\ isSystemSpeaking /\ Includes(delivered.t, OverridePhrase)) =>
    IF delivered.final
    THEN processed = <<delivered.t>>
    ELSE processed = <<>> /\ emitted = <<>>

\* C31: while the system speaks, a transcript with a wake phrase and without the
\* override phrase in it is ignored: the step that delivers it publishes no
\* WakeWordDetected and does not begin to await a command.
C31_WakeIgnoredWhileSpeaking ==
  [][(lastAct' = "onresult" /\ isSystemSpeaking /\ isWakeWordDetected(delivered'.t)
       /\ ~Includes(delivered'.t, OverridePhrase)) =>
       /\ \A i \in 1..Len(emitted') : emitted'[i].type # "wake_word_detected"
       /\ wakeWordState' = wakeWordState]_vars

\* C32: the service publishes WakeWordDetected and CommandDetected only for a
\* final transcript, and for the transcript of the result the event announces:
\* an interim result leads to no wake-word transition and no command, and a
\* command carries the text that was delivered.
C32_FinalNewestOnly ==
  lastAct = "onresult" =>
    /\ ~delivered.final =>
         /\ processed = <<>>
         /\ \A i \in 1..Len(emitted) :
              emitted[i].type \notin {"wake_word_detected", "command_detected"}
    /\ \A i \in 1..Len(emitted) :
         /\ emitted[i].type = "command_detected" => emitted[i].text = delivered.t
         /\ emitted[i].type = "wake_word_detected" => isWakeWordDetected(delivered.t)

\* C33: a capture failure the platform reports as an error callback followed by
\* an end callback counts once and schedules one restart: the end callback of an
\* object whose error was handled raises recognitionAttempts no further and adds
\* no timer to the one the error scheduled.
C33_OneFailureOneRestart ==
  [][(lastAct' = "onend" /\ recognition.st = "failing" /\ recognition.h
       /\ recognition'.st = "idle") =>
       /\ recognitionAttempts' = recognitionAttempts
       /\ timers' = timers]_vars

\* error kinds handleError leaves unclassified
Unclassified(kind) ==
  kind \notin {"none", "end", "network_change", "start_failed", "network_error",
               "device_busy", "audio_capture_error", "aborted", "permission_timeout",
               "permission_denied", "device_not_found"}

\* C34: the start step of the restart after an error classified aborted comes
\* exactly 500 ms after the error, and after an unclassified error it comes after
\* the delay a network_error handled with the same failure counter is given.
C34_AbortedAndDefaultDelay ==
  lastDelay.cb = "start" =>
    /\ lastDelay.origin = "aborted" => lastDelay.acc = AbortDelay
    /\ Unclassified(lastDelay.origin) =>
         lastDelay.acc = UndisturbedDelay("network_error", lastDelay.n0)

\* C35: when the capture of the hook ends while the hook is supposed to listen
\* (it was started and confirmed, and neither stopListening nor an error came
\* since), the end handler leaves a restart timer pending in restartTimeoutRef,
\* the only one.
C35_HookRestartsAfterEnd ==
  [][(lastAct' = "hookOnend" /\ hRec = "running" /\ hListening) => hTimer']_vars

\* C36: a platform object the service no longer references has had its result,
\* error and end handlers detached and was aborted before its successor was
\* constructed: no unreferenced object captures with handlers attached.
C36_ReplacedObjectDisposed ==
  \A k \in 1..Len(orphans) : ~orphans[k].h /\ orphans[k].st = "stopping"

\* C37: at most one restart timer of the service is pending at any time.
C37_AtMostOneRestartTimer == BagCardinality(timers) <= 1

\* C38: the published recognition state agrees with the capture flag: whenever
\* recognitionState is 'listening', isListening is set.
C38_ListeningStateMeansCapture == recognitionState = "listening" => isListening

C40_OneRecognizerAtATime ==
  LET running == {i \in 1..Len(vWake) : vWake[i] = "running"}
  IN /\ vState = "listening" => running = {}
     /\ Cardinality(running) + vCmds <= 1

====
